---- MODULE Spec2Model ----
(***************************************************************************)
(* Model of the room relay of src/views/chat.py: ChatHandler (one per      *)
(* websocket connection), RoomManager (directory of Rooms), Room (one      *)
(* upstream client and its subscriber list) and the avatar resolver        *)
(* get_avatar_url with its deferred-fetch worker _fetch_avatar_loop.       *)
(* Every handler runs to its next suspension point in one step, as the     *)
(* asyncio event loop runs it.  Times are in milliseconds.                 *)
(***************************************************************************)
EXTENDS Integers, Sequences, FiniteSets, TLC

\* ---------------------------------------------------------------- bounds
\* websocket connections opened in one run
NumConns == 2
\* upstream events (danmaku, gift, guard) delivered in one run of the relay
MaxEvents == 1
\* text and guard events delivered in one run of the avatar resolver
MaxLookups == 2
\* clock advances in one run
MaxAdvances == 3

\* A connection joins once, so no run constructs more Rooms than connections
MaxRooms == NumConns

Conns == 1..NumConns
RoomIds == {1, 2}
Uids == {1, 2}
RoomIdx == 1..MaxRooms

\* ------------------------------------------------------ program constants
JOIN_ROOM == 0
ADD_TEXT == 1
ADD_GIFT == 2
ADD_MEMBER == 3
\* 0.2 s between outbound avatar fetches
FetchIntervalMs == 200
\* 3 * 60 + 3 seconds of backoff after a rejected fetch
BanMs == 183000
\* asyncio.sleep(0.4 - elapsed) in the worker
WorkerDelayMs == 400
CacheCapacity == 50000
EvictBatch == 100
QueueCapacity == 15
NewbieRank == 10000

DEFAULT_AVATAR_URL == <<"https://static.hdslb.com/images/member/", "noface.gif">>

NoRoom == 0
NoTime == -1
NoRoomId == 0
NoUid == 0

VARIABLES
  debug,                   \* application.settings['debug']
  conn,                    \* ChatHandler objects: transport status, room_id, escaped error
  outbox,                  \* what write_message put on each connection's transport
  rooms,                   \* RoomManager._rooms
  room,                    \* Room objects, by order of construction
  nextRoom,                \* number of Room objects constructed so far
  ready,                   \* tasks scheduled with ensure_future, not yet started (FIFO)
  calls,                   \* get_avatar_url frames suspended on their HTTP request
  lastCall,                \* history: the latest get_avatar_url call and what it returned
  initiatedAt,             \* history: when the latest outbound fetch was initiated
  cacheOther,              \* entries of _avatar_url_cache for user ids outside Uids
  cacheOlder,              \* how many entries for Uids were inserted before those
  avatar_url_cache,        \* entries for Uids, in insertion order: <<uid, url>>
  last_fetch_avatar_time,
  last_avatar_failed_time,
  uids_to_fetch_avatar,    \* asyncio.Queue(15)
  worker,                  \* _fetch_avatar_loop's position
  now,                     \* datetime.datetime.now()
  broadcasts,              \* history: every send_message call, with the list it saw
  rejectedAt,              \* history: when the latest non-success response came back
  nEvents,
  nAdvances

connVars == <<conn, outbox>>
roomVars == <<rooms, room, nextRoom>>
avatarVars == <<calls, lastCall, initiatedAt, cacheOther, cacheOlder, avatar_url_cache, last_fetch_avatar_time,
                last_avatar_failed_time, uids_to_fetch_avatar, worker, rejectedAt>>
vars == <<debug, conn, outbox, rooms, room, nextRoom, ready, calls, lastCall,
          initiatedAt, cacheOther, cacheOlder,
          avatar_url_cache, last_fetch_avatar_time, last_avatar_failed_time,
          uids_to_fetch_avatar, worker, now, broadcasts, rejectedAt, nEvents,
          nAdvances>>

\* ---------------------------------------------------------------- helpers
Min(S) == CHOOSE x \in S : \A y \in S : x <= y

Max2(a, b) == IF a >= b THEN a ELSE b

Range(s) == {s[k] : k \in 1..Len(s)}

Occurrences(x, s) == Cardinality({k \in 1..Len(s) : s[k] = x})

\* list.remove(x): drops the first occurrence
RemoveFirst(s, x) ==
  LET k == Min({j \in 1..Len(s) : s[j] = x})
  IN  SubSeq(s, 1, k - 1) \o SubSeq(s, k + 1, Len(s))

Repeat(x, n) == [k \in 1..n |-> x]

\* ------------------------------------------------- inbound message values
\* A JSON value as far as on_message looks at it: an integer n, a string
\* holding the decimal digits of n ("numstr"), a float n.5, another string,
\* null, or an absent key.
Val(t, n) == [t |-> t, n |-> n]

Missing == Val("missing", 0)

\* int(v) of Python: the integer itself, the parsed digits, the float
\* truncated toward zero; ValueError for a non-numeric string, TypeError
\* for None.
PyInt(v) ==
  CASE v.t = "int" -> [err |-> "none", n |-> v.n]
    [] v.t = "numstr" -> [err |-> "none", n |-> v.n]
    [] v.t = "float" -> [err |-> "none", n |-> v.n]
    [] v.t = "str" -> [err |-> "ValueError", n |-> 0]
    [] OTHER -> [err |-> "TypeError", n |-> 0]

\* body['cmd'] == Command.JOIN_ROOM: an IntEnum compares by value, and a
\* string never equals an integer
IsJoinCmd(v) == v.t = "int" /\ v.n = JOIN_ROOM

\* json: "invalid" (json.loads raises), "nonobject" (a list, number, string or
\* null), "object"; data.t: "missing" (no 'data' key), "nondict", "dict"
Envelope(j, cmd, dt, rid) ==
  [json |-> j, cmd |-> cmd, data |-> [t |-> dt, roomId |-> rid]]

RoomIdValues ==
  {Val("int", 1), Val("int", 2), Val("numstr", 2), Val("float", 1),
   Val("str", 0), Val("null", 0), Missing}

Messages ==
  {Envelope("invalid", Missing, "missing", Missing),
   Envelope("nonobject", Missing, "missing", Missing),
   Envelope("object", Missing, "dict", Val("int", 1)),
   Envelope("object", Val("int", JOIN_ROOM), "missing", Missing),
   Envelope("object", Val("int", JOIN_ROOM), "nondict", Missing),
   Envelope("object", Val("numstr", JOIN_ROOM), "dict", Val("int", 1)),
   Envelope("object", Val("int", ADD_TEXT), "missing", Missing),
   Envelope("object", Val("int", ADD_TEXT), "dict", Val("int", 1))}
  \cup {Envelope("object", Val("int", JOIN_ROOM), "dict", v) : v \in RoomIdValues}

\* What on_message does with a message before it touches any state: the
\* exception that escapes ("none" if none) and the room id to join (NoRoomId
\* if the message is not acted on).
ParseJoin(m) ==
  IF m.json = "invalid" THEN [err |-> "JSONDecodeError", rid |-> NoRoomId]
  ELSE IF m.json = "nonobject" THEN [err |-> "TypeError", rid |-> NoRoomId]
  ELSE IF m.cmd = Missing THEN [err |-> "KeyError", rid |-> NoRoomId]
  ELSE IF IsJoinCmd(m.cmd) THEN
    IF m.data.t = "missing" THEN [err |-> "KeyError", rid |-> NoRoomId]
    ELSE IF m.data.t = "nondict" THEN [err |-> "TypeError", rid |-> NoRoomId]
    ELSE IF m.data.roomId = Missing THEN [err |-> "KeyError", rid |-> NoRoomId]
    ELSE [err |-> PyInt(m.data.roomId).err, rid |-> PyInt(m.data.roomId).n]
  ELSE \* logger.warning('Unknown cmd: %s data: %s', body['cmd'], body['data'])
    IF m.data.t = "missing" THEN [err |-> "KeyError", rid |-> NoRoomId]
    ELSE [err |-> "none", rid |-> NoRoomId]

\* ------------------------------------------------------------------ Room
NoRoomObject ==
  [room_id |-> NoRoomId, clients |-> <<>>, loop |-> "none", room_owner_uid |-> NoUid,
   starts |-> 0, stops |-> 0, closes |-> 0, stopCb |-> FALSE]

\* Room(room_id) followed by room.start(): the client's message loop runs
NewRoom(rid) ==
  [room_id |-> rid, clients |-> <<>>, loop |-> "running", room_owner_uid |-> NoUid,
   starts |-> 1, stops |-> 0, closes |-> 0, stopCb |-> FALSE]

\* BLiveClient.is_running: the message loop's future is still set
is_running(r) == r.loop \in {"running", "cancelling"}

\* The part of the state a handler threads through its calls; raised is the
\* exception on its way out of the handler ("none" if none).
World ==
  [rooms |-> rooms, room |-> room, nextRoom |-> nextRoom, outbox |-> outbox,
   broadcasts |-> broadcasts, ready |-> ready, raised |-> "none"]

\* The clients write_message reaches before it raises WebSocketClosedError:
\* the loop of send_message stops at the first transport that is not open.
OpenPrefix(cl) ==
  LET bad == {k \in 1..Len(cl) : conn[cl[k]].status # "open"}
  IN  IF bad = {} THEN cl ELSE SubSeq(cl, 1, Min(bad) - 1)

Body(cmd, data) == [cmd |-> cmd, data |-> data]

\* Room.send_message of Room i
send_message(w, i, body) ==
  IF w.raised # "none" THEN w
  ELSE
    LET cl == w.room[i].clients
        got == OpenPrefix(cl)
    IN  [w EXCEPT
          !.outbox = [c \in Conns |-> w.outbox[c] \o Repeat(body, Occurrences(c, got))],
          !.broadcasts = Append(w.broadcasts, [room |-> i, body |-> body, to |-> cl]),
          !.raised = IF got = cl THEN "none" ELSE "WebSocketClosedError"]

\* stop_and_close with close() not chained to the completion of stop()
MutStopAndCloseAtOnce(w, i) ==
  IF is_running(w.room[i])
  THEN [w EXCEPT !.room[i].loop = "cancelling",
                 !.room[i].stops = @ + 1,
                 !.ready = Append(@, [kind |-> "close", room |-> i, ev |-> [uid |-> NoUid]])]
  ELSE [w EXCEPT !.ready = Append(@, [kind |-> "close", room |-> i, ev |-> [uid |-> NoUid]])]

\* Room.stop_and_close of Room i: stop() cancels the loop and close() is
\* chained to its completion; a client that is not running is closed at once
\* (ensure_future puts the close task on the ready queue).
stop_and_close(w, i) ==
  IF is_running(w.room[i])
  THEN [w EXCEPT !.room[i].loop = "cancelling",
                 !.room[i].stops = @ + 1,
                 !.room[i].stopCb = TRUE]
  ELSE [w EXCEPT !.ready = Append(@, [kind |-> "close", room |-> i, ev |-> [uid |-> NoUid]])]

\* --------------------------------------------------------- RoomManager
TestAvatar == <<"https://i0.hdslb.com/bfs/face/29b6be8aa611e70a3d3ac219cdaf5e72b604f2de.jpg", "@48w_48h">>

TestText(name, type, content) ==
  Body(ADD_TEXT, [avatarUrl |-> TestAvatar, timestamp |-> now, authorName |-> name,
                  authorType |-> type, content |-> content, privilegeType |-> 0,
                  isGiftDanmaku |-> FALSE, authorLevel |-> 20, isNewbie |-> FALSE,
                  isMobileVerified |-> TRUE])

TestGift(name, coin) ==
  Body(ADD_GIFT, [avatarUrl |-> TestAvatar, timestamp |-> now, authorName |-> "xfgryujk",
                  giftName |-> name, giftNum |-> 1, totalCoin |-> coin])

TestMessages ==
  <<TestText("xfgryujk", 0, "glass-zh"),
    TestText("owner-zh", 3, "I can eat glass, it doesn't hurt me."),
    Body(ADD_MEMBER, [avatarUrl |-> TestAvatar, timestamp |-> now, authorName |-> "xfgryujk"]),
    TestGift("gift-1", 28000),
    TestGift("gift-2", 100000),
    TestGift("gift-3", 450000),
    TestGift("gift-4", 1245000)>>

RECURSIVE SendAll(_, _, _)
SendAll(w, i, bodies) ==
  IF bodies = <<>> THEN w
  ELSE SendAll(send_message(w, i, Head(bodies)), i, Tail(bodies))

\* RoomManager.__send_test_message
send_test_message(w, i) == SendAll(w, i, TestMessages)

\* add_client that constructs a Room without looking the id up
MutAddClientNewRoom(w, rid, c) ==
  LET i == w.nextRoom + 1
      w1 == [w EXCEPT !.room[i] = NewRoom(rid), !.rooms[rid] = i, !.nextRoom = i]
      w2 == [w1 EXCEPT !.room[i].clients = Append(@, c)]
  IN  IF debug THEN send_test_message(w2, i) ELSE w2

\* RoomManager.add_client
add_client(w, rid, c) ==
  LET known == w.rooms[rid] # NoRoom
      i == IF known THEN w.rooms[rid] ELSE w.nextRoom + 1
      w1 == IF known THEN w
            ELSE [w EXCEPT !.room[i] = NewRoom(rid), !.rooms[rid] = i, !.nextRoom = i]
      w2 == [w1 EXCEPT !.room[i].clients = Append(@, c)]
  IN  IF debug THEN send_test_message(w2, i) ELSE w2

\* del_client that leaves the emptied Room in the directory
MutDelClientKeepsEntry(w, rid, c) ==
  IF w.rooms[rid] = NoRoom THEN w
  ELSE
    LET i == w.rooms[rid] IN
    IF c \notin Range(w.room[i].clients) THEN [w EXCEPT !.raised = "ValueError"]
    ELSE
      LET w1 == [w EXCEPT !.room[i].clients = RemoveFirst(@, c)] IN
      IF w1.room[i].clients = <<>> THEN stop_and_close(w1, i) ELSE w1

\* RoomManager.del_client
del_client(w, rid, c) ==
  IF w.rooms[rid] = NoRoom THEN w
  ELSE
    LET i == w.rooms[rid] IN
    IF c \notin Range(w.room[i].clients) THEN [w EXCEPT !.raised = "ValueError"]
    ELSE
      LET w1 == [w EXCEPT !.room[i].clients = RemoveFirst(@, c)] IN
      IF w1.room[i].clients = <<>>
      THEN [stop_and_close(w1, i) EXCEPT !.rooms[rid] = NoRoom]
      ELSE w1

\* ---------------------------------------------------------- ChatHandler
\* on_message without the "room_id is not None" guard
MutOnMessageRejoin(c, m) ==
  LET p == ParseJoin(m) IN
  IF p.err # "none" THEN [w |-> [World EXCEPT !.raised = p.err], room_id |-> conn[c].room_id]
  ELSE IF p.rid = NoRoomId THEN [w |-> World, room_id |-> conn[c].room_id]
  ELSE [w |-> add_client(World, p.rid, c), room_id |-> p.rid]

\* ChatHandler.on_message: the world after it, the handler's room_id after
\* it and the exception that escapes it
on_message(c, m) ==
  IF conn[c].room_id # NoRoomId
  THEN [w |-> World, room_id |-> conn[c].room_id]
  ELSE
    LET p == ParseJoin(m) IN
    IF p.err # "none" THEN [w |-> [World EXCEPT !.raised = p.err], room_id |-> NoRoomId]
    ELSE IF p.rid = NoRoomId THEN [w |-> World, room_id |-> NoRoomId]
    ELSE [w |-> add_client(World, p.rid, c), room_id |-> p.rid]

\* ChatHandler.on_close
on_close(c) ==
  IF conn[c].room_id # NoRoomId THEN del_client(World, conn[c].room_id, c) ELSE World

SetWorld(w) ==
  /\ rooms' = w.rooms
  /\ room' = w.room
  /\ nextRoom' = w.nextRoom
  /\ outbox' = w.outbox
  /\ broadcasts' = w.broadcasts
  /\ ready' = w.ready

\* A websocket message arrives on an open connection.  An exception that
\* escapes on_message makes tornado log it and abort the connection.
OnMessage(c, m) ==
  /\ conn[c].status = "open"
  /\ LET p == ParseJoin(m) IN
       \/ conn[c].room_id # NoRoomId
       \/ p.err # "none"
       \/ p.rid = NoRoomId
       \/ (p.rid \in RoomIds /\ (rooms[p.rid] # NoRoom \/ nextRoom < MaxRooms))
  /\ LET r == on_message(c, m) IN
       /\ SetWorld(r.w)
       /\ conn' = [conn EXCEPT ![c] =
                     [status |-> IF r.w.raised = "none" THEN "open" ELSE "closing",
                      room_id |-> r.room_id,
                      error |-> r.w.raised]]
  /\ UNCHANGED <<debug, avatarVars, now, nEvents, nAdvances>>

\* The transport of an open connection fails or the peer closes it; tornado
\* calls on_close from a later callback.
Disconnect(c) ==
  /\ conn[c].status = "open"
  /\ conn' = [conn EXCEPT ![c].status = "closing"]
  /\ UNCHANGED <<debug, outbox, roomVars, ready, avatarVars, now, broadcasts,
                 nEvents, nAdvances>>

\* tornado runs on_close, once per connection, and is done with the handler
OnClose(c) ==
  /\ conn[c].status = "closing"
  /\ SetWorld(on_close(c))
  /\ conn' = [conn EXCEPT ![c].status = "closed", ![c].error = "none"]
  /\ UNCHANGED <<debug, avatarVars, now, nEvents, nAdvances>>

\* ------------------------------------------------------- avatar resolver
Pending == <<"pending">>

Raised(e) == <<"raised", e>>

IsRaised(ret) == Len(ret) = 2 /\ ret[1] = "raised"

\* The face URLs the profile service may answer for a user
Face(uid) == <<"https://i0.hdslb.com/bfs/face/", ToString(uid), ".jpg">>

NoFace == <<"https://static.hdslb.com/images/member/", "noface.gif">>

\* url.endswith('noface.gif')
EndsWithNoface(url) == url[Len(url)] = "noface.gif"

\* if not url.endswith('noface.gif'): url += '@48w_48h'
SizedUrl(url) == IF EndsWithNoface(url) THEN url ELSE url \o <<"@48w_48h">>

\* What the HTTP request of get_avatar_url may end in: a non-200 status, a
\* ClientConnectionError, a 200 whose body is not JSON, a 200 whose JSON has
\* no data.face, a 200 carrying a face URL.
Responses(uid) ==
  {[kind |-> k, face |-> NoFace] : k \in {"status", "conn_error", "malformed", "no_face"}}
  \cup {[kind |-> "ok", face |-> f] : f \in {Face(uid), NoFace}}

\* The module-level state of the resolver
Avatar ==
  [cache |-> avatar_url_cache, other |-> cacheOther, older |-> cacheOlder,
   last_fetch |-> last_fetch_avatar_time, last_failed |-> last_avatar_failed_time,
   queue |-> uids_to_fetch_avatar]

CacheKeys(a) == {a.cache[k][1] : k \in 1..Len(a.cache)}

CacheGet(a, uid) == a.cache[CHOOSE k \in 1..Len(a.cache) : a.cache[k][1] = uid][2]

\* len(_avatar_url_cache)
CacheLen(a) == a.other + Len(a.cache)

\* _avatar_url_cache[user_id] = url: a key already present keeps its place
CachePut(a, uid, url) ==
  IF uid \in CacheKeys(a)
  THEN [a EXCEPT !.cache = [k \in 1..Len(a.cache) |->
                              IF a.cache[k][1] = uid THEN <<uid, url>> ELSE a.cache[k]]]
  ELSE [a EXCEPT !.cache = Append(@, <<uid, url>>)]

\* del _avatar_url_cache[key] for the first key the dict's iterator yields
\* (the oldest entry): an entry for Uids inserted before the other entries,
\* else one of the other entries, else the oldest entry for Uids
DelOldest(a) ==
  IF a.older > 0 THEN [a EXCEPT !.cache = Tail(@), !.older = @ - 1]
  ELSE IF a.other > 0 THEN [a EXCEPT !.other = @ - 1]
  ELSE [a EXCEPT !.cache = Tail(@)]

\* for _, key in zip(range(100), _avatar_url_cache): del _avatar_url_cache[key]
\* The first pass deletes one key; the dict's iterator then finds the size
\* changed and raises RuntimeError out of get_avatar_url.
Evict(a) == [a |-> DelOldest(a), raised |-> "RuntimeError"]

\* put_nowait on a queue without a capacity
MutPutUnbounded(q, uid) == Append(q, uid)

\* _uids_to_fetch_avatar.put_nowait(user_id), QueueFull swallowed
PutNowait(q, uid) == IF Len(q) < QueueCapacity THEN Append(q, uid) ELSE q

\* get_avatar_url that does not record the attempt time before it suspends
MutEnterNoStamp(a, uid) ==
  IF uid \in CacheKeys(a)
  THEN [a |-> a, path |-> "hit", ret |-> CacheGet(a, uid)]
  ELSE IF now - a.last_fetch < FetchIntervalMs
  THEN [a |-> [a EXCEPT !.queue = PutNowait(@, uid)],
        path |-> "throttled", ret |-> DEFAULT_AVATAR_URL]
  ELSE IF a.last_failed # NoTime /\ now - a.last_failed < BanMs
  THEN [a |-> a, path |-> "banned", ret |-> DEFAULT_AVATAR_URL]
  ELSE [a |-> [a EXCEPT !.last_failed = NoTime], path |-> "fetch", ret |-> Pending]

\* get_avatar_url that checks the throttle before it looks in the cache
MutEnterThrottleFirst(a, uid) ==
  IF now - a.last_fetch < FetchIntervalMs
  THEN [a |-> [a EXCEPT !.queue = PutNowait(@, uid)],
        path |-> "throttled", ret |-> DEFAULT_AVATAR_URL]
  ELSE IF uid \in CacheKeys(a)
  THEN [a |-> a, path |-> "hit", ret |-> CacheGet(a, uid)]
  ELSE IF a.last_failed # NoTime /\ now - a.last_failed < BanMs
  THEN [a |-> a, path |-> "banned", ret |-> DEFAULT_AVATAR_URL]
  ELSE [a |-> [a EXCEPT !.last_failed = NoTime, !.last_fetch = now],
        path |-> "fetch", ret |-> Pending]

\* get_avatar_url up to its first suspension: path "hit", "throttled" and
\* "banned" return ret at once, path "fetch" has recorded the attempt time
\* and awaits the HTTP response.
GetAvatarEnter(a, uid) ==
  IF uid \in CacheKeys(a)
  THEN [a |-> a, path |-> "hit", ret |-> CacheGet(a, uid)]
  ELSE IF now - a.last_fetch < FetchIntervalMs
  THEN [a |-> [a EXCEPT !.queue = PutNowait(@, uid)],
        path |-> "throttled", ret |-> DEFAULT_AVATAR_URL]
  ELSE IF a.last_failed # NoTime /\ now - a.last_failed < BanMs
  THEN [a |-> a, path |-> "banned", ret |-> DEFAULT_AVATAR_URL]
  ELSE [a |-> [a EXCEPT !.last_failed = NoTime, !.last_fetch = now],
        path |-> "fetch", ret |-> Pending]

\* get_avatar_url that takes a connection failure for a rejection
MutResumeBackoffOnConnError(a, call, resp) ==
  CASE resp.kind \in {"status", "conn_error"} ->
         [a |-> [a EXCEPT !.last_failed = call.cur_time], ret |-> DEFAULT_AVATAR_URL]
    [] resp.kind = "malformed" -> [a |-> a, ret |-> Raised("ContentTypeError")]
    [] resp.kind = "no_face" -> [a |-> a, ret |-> Raised("KeyError")]
    [] OTHER ->
         LET url == SizedUrl(resp.face)
             a1 == CachePut(a, call.uid, url)
         IN  IF CacheLen(a1) > CacheCapacity
             THEN [a |-> Evict(a1).a, ret |-> Raised(Evict(a1).raised)]
             ELSE [a |-> a1, ret |-> url]

\* get_avatar_url from the HTTP response on: call is the suspended frame
\* (user_id and cur_time are its locals)
GetAvatarResume(a, call, resp) ==
  CASE resp.kind = "status" ->
         [a |-> [a EXCEPT !.last_failed = call.cur_time], ret |-> DEFAULT_AVATAR_URL]
    [] resp.kind = "conn_error" -> [a |-> a, ret |-> DEFAULT_AVATAR_URL]
    [] resp.kind = "malformed" -> [a |-> a, ret |-> Raised("ContentTypeError")]
    [] resp.kind = "no_face" -> [a |-> a, ret |-> Raised("KeyError")]
    [] OTHER ->
         LET url == SizedUrl(resp.face)
             a1 == CachePut(a, call.uid, url)
         IN  IF CacheLen(a1) > CacheCapacity
             THEN [a |-> Evict(a1).a, ret |-> Raised(Evict(a1).raised)]
             ELSE [a |-> a1, ret |-> url]

SetAvatar(a) ==
  /\ avatar_url_cache' = a.cache
  /\ cacheOther' = a.other
  /\ cacheOlder' = a.older
  /\ last_fetch_avatar_time' = a.last_fetch
  /\ last_avatar_failed_time' = a.last_failed
  /\ uids_to_fetch_avatar' = a.queue

\* ------------------------------------------------------- upstream events
\* author_type that tests the admin flag before the owner
MutAuthorTypeAdminFirst(d, owner) ==
  IF d.admin # 0 THEN 2
  ELSE IF d.uid = owner THEN 3
  ELSE IF d.privilege_type # 0 THEN 1
  ELSE 0

\* Room.__on_receive_danmaku: author_type
AuthorType(d, owner) ==
  IF d.uid = owner THEN 3
  ELSE IF d.admin # 0 THEN 2
  ELSE IF d.privilege_type # 0 THEN 1
  ELSE 0

TextBody(r, d, url) ==
  Body(ADD_TEXT,
       [avatarUrl |-> url, timestamp |-> d.timestamp, authorName |-> d.uname,
        authorType |-> AuthorType(d, r.room_owner_uid), content |-> d.msg,
        privilegeType |-> d.privilege_type, isGiftDanmaku |-> d.msg_type # 0,
        authorLevel |-> d.user_level, isNewbie |-> d.urank < NewbieRank,
        isMobileVerified |-> d.mobile_verify # 0,
        medalLevel |-> IF d.room_id # r.room_id THEN 0 ELSE d.medal_level])

GiftBody(g) ==
  Body(ADD_GIFT,
       [avatarUrl |-> g.face, timestamp |-> g.timestamp, authorName |-> g.uname,
        giftName |-> g.gift_name, giftNum |-> g.num, totalCoin |-> g.total_coin])

MemberBody(m, url) ==
  Body(ADD_MEMBER,
       [avatarUrl |-> url, timestamp |-> m.start_time, authorName |-> m.username])

Danmaku(uid, admin, privilege, urank, medalRoom) ==
  [uid |-> uid, admin |-> admin, privilege_type |-> privilege, msg |-> "hello",
   timestamp |-> 0, uname |-> ToString(uid), user_level |-> 20, urank |-> urank,
   mobile_verify |-> 1, medal_level |-> 5, room_id |-> medalRoom, msg_type |-> 0]

Danmakus == {Danmaku(1, 0, 0, 5000, 1), Danmaku(2, 1, 3, 10000, 2)}

Gift(coin) ==
  [coin_type |-> coin, face |-> Face(1), timestamp |-> 0, uname |-> "1",
   gift_name |-> "gift", num |-> 1, total_coin |-> 1000]

Gifts == {Gift("gold"), Gift("silver")}

Guards == {[uid |-> 2, start_time |-> 0, username |-> "2"]}

Task(kind, i, ev) == [kind |-> kind, room |-> i, ev |-> ev]

\* a task that broadcasts into the Room the directory now holds for its room id
MutContinueCurrentRoom(w, t, ret) ==
  IF IsRaised(ret) THEN [w EXCEPT !.raised = ret[2]]
  ELSE IF t.kind \notin {"danmaku", "guard"} THEN w
  ELSE
    LET rid == w.room[t.room].room_id
        i == IF w.rooms[rid] # NoRoom THEN w.rooms[rid] ELSE t.room
    IN  IF t.kind = "danmaku" THEN send_message(w, i, TextBody(w.room[i], t.ev, ret))
        ELSE send_message(w, i, MemberBody(t.ev, ret))

\* The statement after "await get_avatar_url(...)" in the task that called it
Continue(w, t, ret) ==
  IF IsRaised(ret) THEN [w EXCEPT !.raised = ret[2]]
  ELSE IF t.kind = "danmaku" THEN send_message(w, t.room, TextBody(w.room[t.room], t.ev, ret))
  ELSE IF t.kind = "guard" THEN send_message(w, t.room, MemberBody(t.ev, ret))
  ELSE w

\* The user who owns each live room (a fact of the platform)
RoomOwnerUid(rid) == rid

\* blivedm's init_room answers: the Room learns its owner's user id
InitRoom(i) ==
  /\ room[i].loop = "running"
  /\ room[i].room_owner_uid = NoUid
  /\ room' = [room EXCEPT ![i].room_owner_uid = RoomOwnerUid(room[i].room_id)]
  /\ UNCHANGED <<debug, connVars, rooms, nextRoom, ready, avatarVars, now, broadcasts,
                 nEvents, nAdvances>>

\* The client of Room i can deliver an event (max bounds the run)
Receiving(i, max) ==
  /\ room[i].loop = "running"
  /\ room[i].room_owner_uid # NoUid
  /\ nEvents < max

\* Room._on_receive_danmaku: ensure_future(self.__on_receive_danmaku(danmaku));
\* the event carries the time the platform sent it
ReceiveDanmaku(i, d, max) ==
  /\ Receiving(i, max)
  /\ ready' = Append(ready, Task("danmaku", i, [d EXCEPT !.timestamp = now]))
  /\ nEvents' = nEvents + 1
  /\ UNCHANGED <<debug, connVars, roomVars, avatarVars, now, broadcasts, nAdvances>>

\* Room._on_buy_guard: ensure_future(self.__on_buy_guard(message))
ReceiveGuard(i, m, max) ==
  /\ Receiving(i, max)
  /\ ready' = Append(ready, Task("guard", i, [m EXCEPT !.start_time = now]))
  /\ nEvents' = nEvents + 1
  /\ UNCHANGED <<debug, connVars, roomVars, avatarVars, now, broadcasts, nAdvances>>

\* _on_receive_gift that holds a gift back while an avatar lookup is pending
MutGiftWaitsForLookups(w, i, g) ==
  IF g.coin_type # "gold" \/ calls # <<>> \/ w.ready # <<>> THEN w
  ELSE send_message(w, i, GiftBody(g))

\* Room._on_receive_gift
on_receive_gift(w, i, g) ==
  IF g.coin_type # "gold" THEN w ELSE send_message(w, i, GiftBody(g))

ReceiveGift(i, g, max) ==
  /\ Receiving(i, max)
  /\ SetWorld(on_receive_gift(World, i, [g EXCEPT !.timestamp = now]))
  /\ nEvents' = nEvents + 1
  /\ UNCHANGED <<debug, conn, avatarVars, now, nAdvances>>

\* ----------------------------------------------------------------- tasks
\* A suspended frame of get_avatar_url: its locals, the task awaiting it and
\* where it waits: for the answer to the request ("request", the async with
\* of _http_session.get) or for the body ("body", await r.json())
Frame(uid, t) == [uid |-> uid, cur_time |-> now, caller |-> t, stage |-> "request"]

CallRecord(uid, at, path, ret) == [uid |-> uid, at |-> at, path |-> path, ret |-> ret]

NoCall == CallRecord(NoUid, NoTime, "none", Pending)

RemoveAt(s, k) == SubSeq(s, 1, k - 1) \o SubSeq(s, k + 1, Len(s))

\* The event loop starts the oldest ready task and runs it to its first
\* suspension: Room.close(), or __on_receive_danmaku / __on_buy_guard /
\* get_avatar_url (started by the worker) up to the HTTP request.
TaskStart ==
  /\ ready # <<>>
  /\ LET t == Head(ready)
         w == [World EXCEPT !.ready = Tail(ready)]
     IN  IF t.kind = "close"
         THEN /\ SetWorld([w EXCEPT !.room[t.room].closes = @ + 1])
              /\ UNCHANGED avatarVars
         ELSE LET g == GetAvatarEnter(Avatar, t.ev.uid) IN
              /\ SetAvatar(g.a)
              /\ calls' = IF g.path = "fetch" THEN Append(calls, Frame(t.ev.uid, t))
                           ELSE calls
              /\ lastCall' = CallRecord(t.ev.uid, now, g.path, g.ret)
              /\ initiatedAt' = IF g.path = "fetch" THEN now ELSE initiatedAt
              /\ SetWorld(IF g.path = "fetch" THEN w ELSE Continue(w, t, g.ret))
              /\ UNCHANGED <<worker, rejectedAt>>
  /\ UNCHANGED <<debug, conn, now, nEvents, nAdvances>>

\* The request of suspended call k is answered with status 200: the frame
\* passes the status check and suspends again in "data = await r.json()".
FetchStatusOk(k) ==
  /\ calls[k].stage = "request"
  /\ calls' = [calls EXCEPT ![k].stage = "body"]
  /\ UNCHANGED <<debug, connVars, roomVars, ready, lastCall, initiatedAt, cacheOther,
                 cacheOlder, avatar_url_cache, last_fetch_avatar_time,
                 last_avatar_failed_time, uids_to_fetch_avatar, worker, now, broadcasts,
                 rejectedAt, nEvents, nAdvances>>

\* What resumes a frame at its stage: a non-200 status answers the request,
\* a body (JSON or not) ends the wait for it, the connection can fail at both
AtStage(call, resp) ==
  \/ resp.kind = "conn_error"
  \/ resp.kind = "status" /\ call.stage = "request"
  \/ resp.kind \in {"malformed", "no_face", "ok"} /\ call.stage = "body"

\* Suspended call k is resumed for the last time; get_avatar_url finishes and
\* its caller goes on.
FetchResponse(k, resp) ==
  /\ AtStage(calls[k], resp)
  /\ LET g == GetAvatarResume(Avatar, calls[k], resp) IN
       /\ SetAvatar(g.a)
       /\ calls' = RemoveAt(calls, k)
       /\ lastCall' = CallRecord(calls[k].uid, calls[k].cur_time, "fetch", g.ret)
       /\ SetWorld(Continue(World, calls[k].caller, g.ret))
       /\ rejectedAt' = IF resp.kind = "status" THEN now ELSE rejectedAt
  /\ UNCHANGED <<debug, conn, worker, initiatedAt, now, nEvents, nAdvances>>

Respond ==
  \E k \in 1..Len(calls) :
    \/ FetchStatusOk(k)
    \/ \E resp \in Responses(calls[k].uid) : FetchResponse(k, resp)

\* ---------------------------------------------------- _fetch_avatar_loop
Idle == [state |-> "idle", uid |-> NoUid, wake |-> NoTime]

\* a worker whose sleep lasts only to the end of the 200 ms fetch interval
MutSleepShort(uid) ==
  [state |-> "sleeping", uid |-> uid,
   wake |-> now + Max2(FetchIntervalMs - (now - last_fetch_avatar_time), 0)]

\* await asyncio.sleep(0.4 - (now - _last_fetch_avatar_time)) holding user_id;
\* a delay of zero or less still suspends the worker once
SleepFor(uid) ==
  [state |-> "sleeping", uid |-> uid,
   wake |-> now + Max2(WorkerDelayMs - (now - last_fetch_avatar_time), 0)]

\* _fetch_avatar_loop run from "await _uids_to_fetch_avatar.get()" to its next
\* suspension: get() returns at once while the queue holds an id, a cached id
\* is skipped (continue), another one sends the worker to sleep; at an empty
\* queue the worker waits in get()
RECURSIVE FetchAvatarLoop(_)
FetchAvatarLoop(q) ==
  IF q = <<>> THEN [queue |-> q, worker |-> Idle]
  ELSE IF Head(q) \in CacheKeys(Avatar) THEN FetchAvatarLoop(Tail(q))
  ELSE [queue |-> Tail(q), worker |-> SleepFor(Head(q))]

\* the worker, waiting in get(), is resumed at a queue that holds an id
WorkerGet ==
  /\ worker.state = "idle"
  /\ uids_to_fetch_avatar # <<>>
  /\ LET r == FetchAvatarLoop(uids_to_fetch_avatar)
     IN  /\ uids_to_fetch_avatar' = r.queue
         /\ worker' = r.worker
  /\ UNCHANGED <<debug, connVars, roomVars, ready, calls, lastCall, initiatedAt,
                 cacheOther, cacheOlder, avatar_url_cache, last_fetch_avatar_time,
                 last_avatar_failed_time, now, broadcasts, rejectedAt, nEvents, nAdvances>>

\* the sleep is over: asyncio.ensure_future(get_avatar_url(user_id)), and the
\* loop runs on to its next suspension
WorkerWake ==
  /\ worker.state = "sleeping"
  /\ now >= worker.wake
  /\ ready' = Append(ready, Task("avatar", NoRoom, [uid |-> worker.uid]))
  /\ LET r == FetchAvatarLoop(uids_to_fetch_avatar)
     IN  /\ uids_to_fetch_avatar' = r.queue
         /\ worker' = r.worker
  /\ UNCHANGED <<debug, connVars, roomVars, calls, lastCall, initiatedAt, cacheOther,
                 cacheOlder, avatar_url_cache, last_fetch_avatar_time, last_avatar_failed_time,
                 now, broadcasts, rejectedAt, nEvents, nAdvances>>

\* ------------------------------------------------------------ environment
TimeSteps == {100, 200, BanMs - 100}

\* The clock moves on by d; the event loop starts a ready task within the
\* same iteration, so time passes only between the tasks' suspensions.
AdvanceTime(d) ==
  /\ nAdvances < MaxAdvances
  /\ ready = <<>>
  /\ now' = now + d
  /\ nAdvances' = nAdvances + 1
  /\ UNCHANGED <<debug, connVars, roomVars, ready, avatarVars, broadcasts, nEvents>>

\* The message loop of Room i's client ends: cancelled by stop(), or on its
\* own.  Its done-callbacks run: the future is forgotten and, if
\* stop_and_close chained a close to it, the close task is scheduled.
LoopDone(i) ==
  /\ is_running(room[i])
  /\ room' = [room EXCEPT ![i].loop = "done"]
  /\ ready' = IF room[i].stopCb THEN Append(ready, Task("close", i, [uid |-> NoUid]))
              ELSE ready
  /\ UNCHANGED <<debug, connVars, rooms, nextRoom, avatarVars, now, broadcasts,
                 nEvents, nAdvances>>

\* ------------------------------------------------------------------ Spec
Init ==
  /\ debug \in BOOLEAN
  /\ conn = [c \in Conns |-> [status |-> "open", room_id |-> NoRoomId, error |-> "none"]]
  /\ outbox = [c \in Conns |-> <<>>]
  /\ rooms = [r \in RoomIds |-> NoRoom]
  /\ room = [i \in RoomIdx |-> NoRoomObject]
  /\ nextRoom = 0
  /\ ready = <<>>
  /\ calls = <<>>
  /\ lastCall = NoCall
  /\ initiatedAt = NoTime
  /\ cacheOther = 0
  /\ cacheOlder = 0
  /\ avatar_url_cache = <<>>
  /\ last_fetch_avatar_time = 0
  /\ last_avatar_failed_time = NoTime
  /\ uids_to_fetch_avatar = <<>>
  /\ worker = Idle
  /\ now = 0
  /\ broadcasts = <<>>
  /\ rejectedAt = NoTime
  /\ nEvents = 0
  /\ nAdvances = 0

\* The relay: connections, the directory, Rooms and their events, while the
\* clock stands at the start-up instant (an avatar lookup that misses the
\* cache is then deferred at once, so no task is suspended).
Next ==
  \/ \E c \in Conns, m \in Messages : OnMessage(c, m)
  \/ \E c \in Conns : Disconnect(c)
  \/ \E c \in Conns : OnClose(c)
  \/ \E i \in RoomIdx : InitRoom(i)
  \/ \E i \in RoomIdx, d \in Danmakus : ReceiveDanmaku(i, d, MaxEvents)
  \/ \E i \in RoomIdx, m \in Guards : ReceiveGuard(i, m, MaxEvents)
  \/ \E i \in RoomIdx, g \in Gifts : ReceiveGift(i, g, MaxEvents)
  \/ TaskStart
  \/ \E i \in RoomIdx : LoopDone(i)

Spec == Init /\ [][Next]_vars

\* The event loop runs every ready task, and a cancelled message loop ends
FairSpec ==
  /\ Spec
  /\ WF_vars(TaskStart)
  /\ \A i \in RoomIdx : WF_vars(room[i].loop = "cancelling" /\ LoopDone(i))

\* The avatar resolver seen from one Room that is up and has one subscriber:
\* text, guard and gift events arrive, time passes, HTTP requests end, the worker
\* drains the deferred queue.
InitResolverWith(others, times, queues, caches) ==
  /\ debug = FALSE
  /\ conn = [c \in Conns |-> [status |-> "open", room_id |-> IF c = 1 THEN 1 ELSE NoRoomId,
                              error |-> "none"]]
  /\ outbox = [c \in Conns |-> <<>>]
  /\ rooms = [r \in RoomIds |-> IF r = 1 THEN 1 ELSE NoRoom]
  /\ room = [i \in RoomIdx |->
               IF i = 1 THEN [NewRoom(1) EXCEPT !.clients = <<1>>, !.room_owner_uid = 1]
               ELSE NoRoomObject]
  /\ nextRoom = 1
  /\ ready = <<>>
  /\ calls = <<>>
  /\ lastCall = NoCall
  /\ initiatedAt = NoTime
  /\ cacheOther \in others
  /\ avatar_url_cache \in caches
  /\ cacheOlder = Len(avatar_url_cache)
  /\ last_fetch_avatar_time = 0
  /\ last_avatar_failed_time = NoTime
  /\ uids_to_fetch_avatar \in queues
  /\ worker = Idle
  /\ now \in times
  /\ broadcasts = <<>>
  /\ rejectedAt = NoTime
  /\ nEvents = 0
  /\ nAdvances = 0

\* ... no user of Uids looked up yet
InitResolverAt(others, times, queues) == InitResolverWith(others, times, queues, {<<>>})

\* ... right after start-up, nothing deferred yet
InitResolver(others) == InitResolverAt(others, {0}, {<<>>})

InitAvatar == InitResolver({0})

\* The same, the cache already holding entries for other users up to its
\* capacity (after that many successful lookups)
InitEvict == InitResolver({CacheCapacity - 1, CacheCapacity})

NextAvatar ==
  \/ \E d \in Danmakus : ReceiveDanmaku(1, d, MaxLookups)
  \/ \E m \in Guards : ReceiveGuard(1, m, MaxLookups)
  \/ \E g \in Gifts : ReceiveGift(1, g, MaxLookups)
  \/ TaskStart
  \/ Respond
  \/ WorkerGet
  \/ WorkerWake
  \/ \E d \in TimeSteps : AdvanceTime(d)

SpecAvatar == InitAvatar /\ [][NextAvatar]_vars

SpecEvict == InitEvict /\ [][NextAvatar]_vars

\* The same, user 1 not looked up yet or already resolved into the cache,
\* and no or CacheCapacity - 1 other users resolved after that
InitHit ==
  InitResolverWith({0, CacheCapacity - 1}, {0}, {<<>>},
                   {<<>>, <<<<1, SizedUrl(Face(1))>>>>})

SpecHit == InitHit /\ [][NextAvatar]_vars

\* The same, a burst of events of user 2 having filled the pending-fetch
\* queue, or all of it but one place
InitQueue ==
  InitResolverAt({0}, {0}, {Repeat(2, QueueCapacity - 1), Repeat(2, QueueCapacity)})

\* The resolver's callers at a queue the worker has not come to drain yet
NextQueue ==
  \/ \E d \in Danmakus : ReceiveDanmaku(1, d, MaxLookups)
  \/ \E m \in Guards : ReceiveGuard(1, m, MaxLookups)
  \/ TaskStart
  \/ Respond
  \/ \E d \in TimeSteps : AdvanceTime(d)

SpecQueue == InitQueue /\ [][NextQueue]_vars

\* Text events of every kind of sender: the owner of room 1 or another user,
\* with or without the admin flag, with no membership or one of two tiers
AuthorInputs ==
  {Danmaku(u, a, p, NewbieRank, 1) : u \in Uids, a \in {0, 1}, p \in {0, 1, 3}}

\* The first of them arrives at start-up (its lookup is deferred) or 200 ms
\* later (its lookup fetches)
InitAuthor == InitResolverAt({0}, {0, FetchIntervalMs}, {<<>>})

\* The Room classifying and relaying those events
NextAuthor ==
  \/ \E d \in AuthorInputs : ReceiveDanmaku(1, d, MaxLookups)
  \/ TaskStart
  \/ Respond

SpecAuthor == InitAuthor /\ [][NextAuthor]_vars

\* ============================================================ properties
CloseTask(i) == [kind |-> "close", room |-> i, ev |-> [uid |-> NoUid]]

\* close() tasks of Room i scheduled and not yet run
CloseTasks(i) == Occurrences(CloseTask(i), ready)

\* stop_and_close has been called on Room i
TornDown(i) == room[i].stops > 0 \/ room[i].closes > 0 \/ CloseTasks(i) > 0

\* how often connection c stands in the subscriber lists of all Rooms
Registrations(c) ==
  Cardinality({ik \in RoomIdx \X (1..NumConns) :
                 ik[2] <= Len(room[ik[1]].clients) /\ room[ik[1]].clients[ik[2]] = c})

RegistrationsAfter(c) ==
  Cardinality({ik \in RoomIdx \X (1..NumConns) :
                 ik[2] <= Len(room'[ik[1]].clients) /\ room'[ik[1]].clients[ik[2]] = c})

\* this step is on_message of c assigning room id rid
JoinStep(c, rid) == conn[c].room_id = NoRoomId /\ conn'[c].room_id = rid

\* this step is on_close of c
CloseStep(c) == conn[c].status = "closing" /\ conn'[c].status = "closed"

\* this step starts a task that calls get_avatar_url
CallStep == ready # <<>> /\ Head(ready).kind # "close" /\ ready' = Tail(ready)

\* ---- C1
C1_Directory ==
  \A rid \in RoomIds :
    /\ rooms[rid] # NoRoom => room[rooms[rid]].room_id = rid /\ ~TornDown(rooms[rid])
    /\ \A i \in RoomIdx :
         room[i].room_id = rid =>
           /\ room[i].starts = 1
           /\ (~TornDown(i) => rooms[rid] = i)

C1_Join ==
  \A c \in Conns, rid \in RoomIds :
    JoinStep(c, rid) =>
      IF rooms[rid] = NoRoom
      THEN /\ nextRoom' = nextRoom + 1
           /\ rooms' = [rooms EXCEPT ![rid] = nextRoom + 1]
           /\ room' = [room EXCEPT ![nextRoom + 1] = [NewRoom(rid) EXCEPT !.clients = <<c>>]]
      ELSE /\ nextRoom' = nextRoom
           /\ rooms' = rooms
           /\ room' = [room EXCEPT ![rooms[rid]].clients = Append(@, c)]

\* C1: the directory holds at most one Room per room id, every Room not yet
\* torn down being the directory's entry for its id and started exactly
\* once; a join of an id without an entry constructs and starts exactly one
\* Room and registers the subscriber with it, a join of an id with an entry
\* appends to that Room and constructs and starts nothing.
C1_OneRoomPerId == []C1_Directory /\ [][C1_Join]_vars

\* two connections share the one Room of a room id
C1_Witness ==
  \E rid \in RoomIds : rooms[rid] # NoRoom /\ Len(room[rooms[rid]].clients) = 2

\* ---- C2
C2_Counts ==
  /\ \A i \in RoomIdx :
       /\ room[i].stops <= 1
       /\ room[i].closes + CloseTasks(i) <= 1
       /\ (room[i].closes + CloseTasks(i) > 0 => room[i].loop = "done")
  /\ \A rid \in RoomIds, c \in Conns :
       rooms[rid] = NoRoom => del_client(World, rid, c) = World

C2_Leave ==
  \A c \in Conns :
    (CloseStep(c) /\ conn[c].room_id # NoRoomId) =>
      LET rid == conn[c].room_id
          i == rooms[rid]
      IN  /\ i # NoRoom
          /\ room'[i].closes = room[i].closes
          /\ IF room[i].clients = <<c>>
             THEN /\ rooms' = [rooms EXCEPT ![rid] = NoRoom]
                  /\ IF is_running(room[i])
                     THEN /\ room'[i].stops = room[i].stops + 1
                          /\ room'[i].loop = "cancelling"
                          /\ ready' = ready
                     ELSE /\ room'[i].stops = room[i].stops
                          /\ ready' = Append(ready, CloseTask(i))
             ELSE /\ rooms' = rooms
                  /\ room' = [room EXCEPT ![i].clients = RemoveFirst(@, c)]
                  /\ ready' = ready

C2_CloseAfterStop ==
  \A i \in RoomIdx :
    room'[i].closes > room[i].closes =>
      /\ room[i].loop = "done"
      /\ room'[i].closes = 1
      /\ rooms[room[i].room_id] # i

\* C2: the on_close that removes a Room's last subscriber takes the Room
\* out of the directory and requests its stop once (or, the client not
\* running, schedules its close directly); close is scheduled and invoked at
\* most once per Room and only when the message loop has ended, never before
\* the stop completed; a torn-down Room is eventually closed; del_client for
\* an id without a directory entry changes nothing.
C2_StopThenClose ==
  /\ []C2_Counts
  /\ [][C2_Leave]_vars
  /\ [][C2_CloseAfterStop]_vars
  /\ \A i \in RoomIdx : TornDown(i) ~> (room[i].closes = 1)

\* a Room that was stopped and then closed, and is out of the directory
C2_Witness ==
  \E i \in RoomIdx :
    /\ room[i].stops = 1
    /\ room[i].closes = 1
    /\ rooms[room[i].room_id] # i

\* ---- C3
\* the bodies connection c is due: those of the broadcasts whose Room had c
\* as a subscriber, in order
Due(c) ==
  LET mine == SelectSeq(broadcasts, LAMBDA b : c \in Range(b.to))
  IN  [k \in 1..Len(mine) |-> mine[k].body]

\* C3: every broadcast reaches each subscriber of its Room exactly once with
\* the same body, and nobody else (stated for the subscribers whose own
\* transport is open: that the others of a Room are served is the claim).
C3_DeliveredToAll ==
  \A c \in Conns : conn[c].status = "open" => outbox[c] = Due(c)

\* ---- C4
\* C4: no call of get_avatar_url ends in an exception.
C4_NeverRaises == ~IsRaised(lastCall.ret)

\* ---- C5
C5_BackoffStep ==
  (CallStep /\ rejectedAt # NoTime /\ now - rejectedAt < BanMs) =>
    (lastCall'.path # "fetch" /\ lastCall'.ret = DEFAULT_AVATAR_URL)

\* C5: a call issued less than 183 s after a non-success response came back
\* makes no network request and returns the placeholder.
C5_Backoff == [][C5_BackoffStep]_vars

\* ---- C6
C6_Step ==
  Len(calls') > Len(calls) =>
    /\ initiatedAt = NoTime \/ now - initiatedAt >= FetchIntervalMs
    /\ \A k \in 1..Len(calls) : now - calls[k].cur_time >= FetchIntervalMs
    /\ last_fetch_avatar_time' = now

\* C6: a fetch is initiated only 200 ms or more after the previous
\* initiation, whoever made it and whether or not it is still in flight, and
\* its time is recorded in the step that initiates it.
C6_Throttle == [][C6_Step]_vars

\* a second fetch initiated while the first is in flight
C6_Witness == Len(calls) = 2

\* ---- C7
C7_Step ==
  ((\E u \in Uids : u \notin CacheKeys(Avatar) /\ u \in {avatar_url_cache'[k][1] : k \in 1..Len(avatar_url_cache')})
    /\ CacheLen(Avatar) + 1 > CacheCapacity) =>
    cacheOther' + Len(avatar_url_cache') <= CacheLen(Avatar) + 1 - EvictBatch

\* C7: an insertion that takes the cache above 50,000 entries removes at
\* least 100 of them.
C7_EvictsBatch == [][C7_Step]_vars

\* ---- C8
\* the user ids the cache holds after this step
CacheKeysAfter == {avatar_url_cache'[k][1] : k \in 1..Len(avatar_url_cache')}

\* a call for an id the cache holds is a hit that touches nothing
C8_HitStep ==
  (CallStep /\ Head(ready).ev.uid \in CacheKeys(Avatar)) =>
    /\ lastCall' = CallRecord(Head(ready).ev.uid, now, "hit",
                              CacheGet(Avatar, Head(ready).ev.uid))
    /\ UNCHANGED <<calls, initiatedAt, cacheOther, cacheOlder, avatar_url_cache,
                   last_fetch_avatar_time, last_avatar_failed_time,
                   uids_to_fetch_avatar, rejectedAt>>

\* an id the cache holds is never taken out of it
C8_StaysStep == \A u \in CacheKeys(Avatar) : u \in CacheKeysAfter

\* an id leaves the cache only as its oldest entry, when the fetch of an id
\* the cache does not hold resolves and takes it above its capacity
C8_LeavesStep ==
  \A u \in CacheKeys(Avatar) :
    u \notin CacheKeysAfter =>
      /\ \E k \in 1..Len(calls) :
           /\ calls' = RemoveAt(calls, k)
           /\ calls[k].uid \notin CacheKeys(Avatar)
      /\ CacheLen(Avatar) + 1 > CacheCapacity
      /\ u = avatar_url_cache[1][1]
      /\ cacheOlder > 0 \/ cacheOther = 0

\* C8 as stated: once an id is in the cache, every later call for it returns
\* the cached URL and leaves the in-flight fetches, the cache, the
\* pending-fetch queue and both timestamps as they were, whatever the
\* throttle and backoff state (the id being in the cache at every later call).
C8_EveryLaterCall == [][C8_HitStep /\ C8_StaysStep]_vars

\* C8 as amended: the same for every later call made while the id is still
\* in the cache; the id leaves the cache only by the eviction of an insertion
\* that takes the cache above its capacity.
C8_CacheHit == [][C8_HitStep /\ C8_LeavesStep]_vars

\* a cache hit less than 200 ms after the last fetch attempt and, at the
\* same time, during a backoff
C8_Witness ==
  /\ lastCall.path = "hit"
  /\ lastCall.at - last_fetch_avatar_time < FetchIntervalMs
  /\ last_avatar_failed_time # NoTime
  /\ lastCall.at - last_avatar_failed_time < BanMs

\* ---- C9
C9_Once ==
  \A c \in Conns :
    /\ Registrations(c) <= 1
    /\ (conn[c].room_id = NoRoomId => Registrations(c) = 0)
    /\ \A m \in Messages :
         (conn[c].status = "open" /\ conn[c].room_id # NoRoomId) =>
           on_message(c, m) = [w |-> World, room_id |-> conn[c].room_id]

C9_Step ==
  \A c \in Conns :
    /\ conn[c].room_id # NoRoomId => conn'[c].room_id = conn[c].room_id
    /\ RegistrationsAfter(c) > Registrations(c) =>
         /\ conn[c].room_id = NoRoomId
         /\ conn'[c].room_id \in RoomIds
         /\ RegistrationsAfter(c) = 1
         /\ c \in Range(room'[rooms'[conn'[c].room_id]].clients)
    /\ CloseStep(c) =>
         IF conn[c].room_id = NoRoomId
         THEN UNCHANGED <<rooms, room, nextRoom, ready, outbox>>
         ELSE /\ RegistrationsAfter(c) = 0
              /\ <<rooms', room', ready'>> =
                   <<del_client(World, conn[c].room_id, c).rooms,
                     del_client(World, conn[c].room_id, c).room,
                     del_client(World, conn[c].room_id, c).ready>>

\* C9: a connection's room id, once set, never changes; the connection is
\* registered with a Room at most once, in the step that sets its room id; a
\* message after the assignment changes nothing; on_close deregisters the
\* connection from the Room of its room id if it has one and touches no Room
\* if it has none.
C9_OneShotJoin == []C9_Once /\ [][C9_Step]_vars

\* a connection that joined and was deregistered, beside one that closed without joining
C9_Witness ==
  /\ \E c \in Conns : conn[c].status = "closed" /\ conn[c].room_id # NoRoomId
  /\ \E c \in Conns : conn[c].status = "closed" /\ conn[c].room_id = NoRoomId

\* ---- C10
\* C10: a connection that has not joined has had no exception escape its
\* on_message and is not being aborted for one.
C10_ViolationIgnored ==
  \A c \in Conns : conn[c].room_id = NoRoomId => conn[c].error = "none"

\* ---- C11
\* the broadcasts this step issued
IssuedNow == SubSeq(broadcasts', Len(broadcasts) + 1, Len(broadcasts'))

\* the bodies of this step's broadcasts whose Room had c as a subscriber
IssuedTo(c) ==
  LET mine == SelectSeq(IssuedNow, LAMBDA b : c \in Range(b.to))
  IN  [k \in 1..Len(mine) |-> mine[k].body]

\* C11: a broadcast skips the subscribers whose transport has failed and
\* still writes its payload to every subscriber whose transport is open:
\* in every step each open connection receives exactly the bodies of the
\* broadcasts issued in that step to a Room it is a subscriber of.
C11_FailedSkipped ==
  [][\A c \in Conns : conn[c].status = "open" => outbox'[c] = outbox[c] \o IssuedTo(c)]_vars

\* ---- C12
\* a text or guard event is received: its callback schedules a task and
\* returns, nothing is sent and no lookup is started or awaited
C12_CallbackReturns ==
  (nEvents' = nEvents + 1 /\ ready' # ready) =>
    /\ \E t \in {Task(k, 1, e) : k \in {"danmaku", "guard"},
                                  e \in {[d EXCEPT !.timestamp = now] : d \in Danmakus}
                                        \cup {[m EXCEPT !.start_time = now] : m \in Guards}} :
         ready' = Append(ready, t)
    /\ UNCHANGED <<broadcasts, outbox, calls, lastCall, initiatedAt>>

\* a gold gift is broadcast in the step that receives it, whatever lookups
\* are pending; another gift is dropped
C12_GiftAtOnce ==
  \A g \in Gifts :
    ReceiveGift(1, g, MaxLookups) =>
      IF g.coin_type = "gold"
      THEN broadcasts' = Append(broadcasts,
                                [room |-> 1, body |-> GiftBody([g EXCEPT !.timestamp = now]),
                                 to |-> room[1].clients])
      ELSE UNCHANGED <<broadcasts, outbox>>

\* C12: the text and guard callbacks return without waiting for the avatar
\* lookup and a premium gift is broadcast in the step that receives it, so
\* broadcasts of different event types need not follow the order of receipt
\* (the execution in which a later gift overtakes a text is C12_Witness).
C12_RelaxedOrder == [][C12_CallbackReturns /\ C12_GiftAtOnce]_vars

\* a gift was broadcast before a text event that the platform sent earlier
C12_Witness ==
  \E j, k \in 1..Len(broadcasts) :
    /\ j < k
    /\ broadcasts[j].body.cmd = ADD_GIFT
    /\ broadcasts[k].body.cmd = ADD_TEXT
    /\ broadcasts[k].body.data.timestamp < broadcasts[j].body.data.timestamp

\* ---- C13
\* the classification by strict precedence: owner 3, moderator 2, member 1,
\* viewer 0
Precedence(d, owner) ==
  CASE d.uid = owner -> 3
    [] d.uid # owner /\ d.admin # 0 -> 2
    [] d.uid # owner /\ d.admin = 0 /\ d.privilege_type # 0 -> 1
    [] OTHER -> 0

\* the text broadcast issued in this step, if any, carries author type n
RelaysAuthorType(n) ==
  \A k \in 1..Len(IssuedNow) :
    IssuedNow[k].body.cmd = ADD_TEXT => IssuedNow[k].body.data.authorType = n

C13_Step ==
  /\ (CallStep /\ Head(ready).kind = "danmaku") =>
       RelaysAuthorType(Precedence(Head(ready).ev, room[Head(ready).room].room_owner_uid))
  /\ \A k \in 1..Len(calls) :
       (calls' = RemoveAt(calls, k) /\ calls[k].caller.kind = "danmaku") =>
         RelaysAuthorType(Precedence(calls[k].caller.ev,
                                     room[calls[k].caller.room].room_owner_uid))

\* C13: the author type relayed for a text event is owner when the sender
\* is the room owner whatever the flags, otherwise moderator when the admin
\* flag is set, otherwise member when the membership tier is non-zero,
\* otherwise viewer, for every combination of sender, flag and tier and on
\* every path of the avatar lookup.
C13_AuthorPrecedence == [][C13_Step]_vars

\* the owner with a membership tier was relayed as owner, and a moderator
\* with a membership tier as moderator
C13_Witness ==
  /\ \E k \in 1..Len(broadcasts) :
       /\ broadcasts[k].body.cmd = ADD_TEXT
       /\ broadcasts[k].body.data.authorType = 3
       /\ broadcasts[k].body.data.privilegeType # 0
  /\ \E k \in 1..Len(broadcasts) :
       /\ broadcasts[k].body.cmd = ADD_TEXT
       /\ broadcasts[k].body.data.authorType = 2
       /\ broadcasts[k].body.data.privilegeType # 0

\* ---- C14
\* this step takes an identifier from the pending-fetch queue
PopStep == Len(uids_to_fetch_avatar') < Len(uids_to_fetch_avatar)

\* this step schedules a resolution on behalf of the worker
StartStep ==
  /\ Len(ready') > Len(ready)
  /\ ready'[Len(ready')].kind = "avatar"

\* the queue without the cached identifiers at its head
RECURSIVE SkipCached(_)
SkipCached(q) ==
  IF q # <<>> /\ Head(q) \in CacheKeys(Avatar) THEN SkipCached(Tail(q)) ELSE q

\* the worker, at the queue, skips the cached identifiers, takes the next one
\* and sleeps until interval ms have passed since the last fetch attempt; at
\* a queue left empty it waits
WorkerTakes(interval) ==
  LET q == SkipCached(uids_to_fetch_avatar) IN
    IF q = <<>>
    THEN /\ uids_to_fetch_avatar' = <<>>
         /\ worker' = Idle
    ELSE /\ uids_to_fetch_avatar' = Tail(q)
         /\ worker' = [state |-> "sleeping", uid |-> Head(q),
                       wake |-> now + Max2(interval - (now - last_fetch_avatar_time), 0)]

\* only the worker, waiting at the queue or at the end of its sleep, takes
\* identifiers from the queue
WorkerPops(interval) ==
  PopStep =>
    /\ worker.state = "idle" \/ (worker.state = "sleeping" /\ now >= worker.wake)
    /\ worker.state = "idle" => UNCHANGED ready
    /\ worker.state = "sleeping" => StartStep
    /\ WorkerTakes(interval)
    /\ UNCHANGED <<calls, lastCall, broadcasts, outbox>>

\* the worker's sleep ends no earlier than planned; it then schedules the
\* resolution of the identifier it holds and is back at the queue in the same
\* step, not waiting for the result
WorkerStarts(interval) ==
  /\ (worker.state = "sleeping" /\ worker' # worker) => StartStep
  /\ StartStep =>
       /\ worker.state = "sleeping"
       /\ now >= worker.wake
       /\ ready' = Append(ready, Task("avatar", NoRoom, [uid |-> worker.uid]))
       /\ WorkerTakes(interval)
       /\ UNCHANGED <<calls, lastCall>>

\* C14 as stated: the worker is the only consumer of the queue, sleeps for
\* what remains of the 200 ms interval since the last fetch attempt and
\* starts the resolution without waiting for it.
C14_WorkerSleeps200 ==
  [][WorkerPops(FetchIntervalMs) /\ WorkerStarts(FetchIntervalMs)]_vars

\* C14 as amended: the same with the worker sleeping until 400 ms have
\* passed since the last fetch attempt (zero if they already have).
C14_Worker == [][WorkerPops(WorkerDelayMs) /\ WorkerStarts(WorkerDelayMs)]_vars

\* a resolution started by the worker is in flight while the worker already
\* sleeps for the next identifier
C14_Witness ==
  /\ \E k \in 1..Len(calls) : calls[k].caller.kind = "avatar"
  /\ worker.state = "sleeping"

\* ---- C15
C15_Step ==
  (/\ CallStep
   /\ Head(ready).ev.uid \notin CacheKeys(Avatar)
   /\ now - last_fetch_avatar_time < FetchIntervalMs) =>
    /\ lastCall' = CallRecord(Head(ready).ev.uid, now, "throttled", DEFAULT_AVATAR_URL)
    /\ UNCHANGED <<calls, initiatedAt, last_fetch_avatar_time, last_avatar_failed_time,
                   cacheOther, avatar_url_cache>>
    /\ uids_to_fetch_avatar' =
         IF Len(uids_to_fetch_avatar) < QueueCapacity
         THEN Append(uids_to_fetch_avatar, Head(ready).ev.uid)
         ELSE uids_to_fetch_avatar

\* C15: a call that misses the cache less than 200 ms after the last fetch
\* attempt initiates no fetch, returns the placeholder and appends the user
\* id to the pending-fetch queue, or leaves the queue as it is when it holds
\* 15 identifiers; the queue never holds more than 15.
C15_QueueBound ==
  /\ [](Len(uids_to_fetch_avatar) <= QueueCapacity)
  /\ [][C15_Step]_vars

\* a throttled call whose user id was dropped at a full queue
C15_Witness ==
  /\ lastCall.path = "throttled"
  /\ lastCall.ret = DEFAULT_AVATAR_URL
  /\ Len(uids_to_fetch_avatar) = QueueCapacity
  /\ lastCall.uid \notin Range(uids_to_fetch_avatar)

\* ---- C16
\* the request ended in aiohttp.ClientConnectionError
ConnError == [kind |-> "conn_error", face |-> NoFace]

C16_Step ==
  /\ \A k \in 1..Len(calls) :
       FetchResponse(k, ConnError) =>
         /\ lastCall' = CallRecord(calls[k].uid, calls[k].cur_time, "fetch", DEFAULT_AVATAR_URL)
         /\ UNCHANGED <<last_avatar_failed_time, last_fetch_avatar_time, cacheOther,
                        avatar_url_cache, uids_to_fetch_avatar, rejectedAt>>
  /\ (/\ CallStep
      /\ Head(ready).ev.uid \notin CacheKeys(Avatar)
      /\ now - last_fetch_avatar_time >= FetchIntervalMs
      /\ last_avatar_failed_time = NoTime) =>
       lastCall'.path = "fetch"

\* C16: a fetch that ends in a connection failure returns the placeholder
\* and leaves the backoff time, the last-fetch time, the cache and the queue
\* as they were; with no backoff recorded, the next call that misses the
\* cache 200 ms or more after the last attempt fetches.
C16_ConnErrorNoBackoff == [][C16_Step]_vars

\* a fetch came back with the placeholder although no fetch was ever
\* rejected and none resolved that user; no backoff is recorded
C16_Witness ==
  /\ lastCall.path = "fetch"
  /\ lastCall.ret = DEFAULT_AVATAR_URL
  /\ lastCall.uid \notin CacheKeys(Avatar)
  /\ rejectedAt = NoTime
  /\ last_avatar_failed_time = NoTime

\* ---- C17
\* Room i was constructed and is no longer the directory's Room of its id
LeftDirectory(i) == room[i].room_id # NoRoomId /\ rooms[room[i].room_id] # i

C17_Step ==
  /\ \A c \in Conns : CloseStep(c) => SubSeq(ready', 1, Len(ready)) = ready
  /\ (/\ CallStep
      /\ Head(ready).kind \in {"danmaku", "guard"}
      /\ LeftDirectory(Head(ready).room)
      /\ lastCall'.path # "fetch") =>
       /\ Len(IssuedNow) = 1
       /\ IssuedNow[1].room = Head(ready).room
       /\ IssuedNow[1].to = <<>>
       /\ outbox' = outbox
       /\ Continue(World, Head(ready), lastCall'.ret).raised = "none"

\* C17: on_close leaves the scheduled enrichment tasks where they are; a
\* Room that has left the directory has no subscribers, and a task of such
\* a Room that completes issues its broadcast to that empty collection,
\* raises nothing and writes to no connection, whether or not the directory
\* holds a new Room for the same room id.
C17_LateTaskNoOp == [](\A i \in RoomIdx : LeftDirectory(i) => room[i].clients = <<>>) /\ [][C17_Step]_vars

\* a task of a torn-down Room has broadcast to nobody while a new Room of
\* the same room id has a subscriber, who did not receive the payload
C17_Witness ==
  \E k \in 1..Len(broadcasts) :
    LET b == broadcasts[k]
        rid == room[b.room].room_id
    IN  /\ b.to = <<>>
        /\ rooms[rid] # NoRoom
        /\ rooms[rid] # b.room
        /\ room[rooms[rid]].clients # <<>>
        /\ \A c \in Conns : b.body \notin Range(outbox[c])

\* ---- C18
\* the Rooms of room id rid whose upstream client was started and not closed
Upstreams(rid) ==
  {i \in RoomIdx : room[i].room_id = rid /\ room[i].starts > 0 /\ room[i].closes = 0}

\* C18: for every room id at most one upstream client has been started and
\* not yet closed, Rooms that are still stopping included.
C18_OneUpstream == \A rid \in RoomIds : Cardinality(Upstreams(rid)) <= 1

\* ---- C19
\* C19: a room id has a directory entry exactly when its Room has a
\* subscriber (an entry's Room is of that id and not empty, a Room with a
\* subscriber is its id's entry), and every open connection with a room id
\* stands exactly once in the subscriber list of the directory's Room of
\* that id and in no other Room's list.
C19_DirectoryInv ==
  /\ \A rid \in RoomIds :
       rooms[rid] # NoRoom =>
         room[rooms[rid]].room_id = rid /\ room[rooms[rid]].clients # <<>>
  /\ \A i \in RoomIdx : room[i].clients # <<>> => rooms[room[i].room_id] = i
  /\ \A c \in Conns :
       (conn[c].status = "open" /\ conn[c].room_id # NoRoomId) =>
         /\ rooms[conn[c].room_id] # NoRoom
         /\ Occurrences(c, room[rooms[conn[c].room_id]].clients) = 1
         /\ \A j \in RoomIdx \ {rooms[conn[c].room_id]} : c \notin Range(room[j].clients)

\* one subscriber of a Room has left and been deregistered, another one is
\* still open and registered with it
C19_Witness ==
  \E c, e \in Conns :
    /\ conn[c].status = "closed"
    /\ conn[e].status = "open"
    /\ conn[c].room_id # NoRoomId
    /\ conn[e].room_id = conn[c].room_id
    /\ rooms[conn[e].room_id] # NoRoom
    /\ room[rooms[conn[e].room_id]].clients = <<e>>
    /\ nextRoom = 1

\* ---- C20
\* C20: a recorded backoff start is never replaced by an earlier one.
C20_BackoffMonotone ==
  [][(last_avatar_failed_time # NoTime /\ last_avatar_failed_time' # NoTime) =>
       last_avatar_failed_time' >= last_avatar_failed_time]_vars

====
